---- MODULE Spec2Model ----
(***************************************************************************)
(* Model of the InboxForge ingestion pipeline: cli/ingest.py drives        *)
(* core/json_organizer.py (JsonOrganizer), classes/file_handler.py         *)
(* (FileHandler), classes/email_parser.py (EmailParser) and                *)
(* core/search_engine.py (SearchEngine).                                   *)
(*                                                                         *)
(* Durable state is the content of the files of the store; every single    *)
(* file write is one atomic step, and the process can be interrupted       *)
(* between any two of them.  An I/O operation that the code guards with a  *)
(* try/except takes its success as an input drawn from BOOLEAN.            *)
(* Timestamps (processed_date, last_updated) are not modelled.             *)
(*                                                                         *)
(* The search index is the list of its documents; a text field is the set  *)
(* of its words, a query string a sequence of words and runs of blanks,    *)
(* and the index engine (Whoosh) answers by its documented contract:       *)
(* update_document replaces by unique id, MultifieldParser requires every  *)
(* word in one of the fields, DateRange is inclusive, limit cuts the hits. *)
(***************************************************************************)
EXTENDS Integers, Sequences, FiniteSets, TLC

\* ---------------------------------------------------------------- bounds
NumFiles == 2        \* .eml files in the input folder
NumContents == 3     \* distinct byte contents a file can have
HashMod == 2         \* distinct values of the truncated fingerprint
MaxRuns == 2         \* runs of process_folder over the input folder
MaxNameLen == 3      \* path components in a declared attachment filename
MaxPairName == 6     \* declared names a two-attachment message draws from
NumTerms == 2        \* distinct words of the indexed texts and of the queries
NumVariants == 3     \* distinct metadata/content/date a record passed to index_email has
MaxQueryLen == 2     \* pieces (a word or a run of blanks) of a query string
MaxCap == 2          \* largest max_results a caller passes

FileNames == 1..NumFiles
Contents == 1..NumContents
Ids == 0..(HashMod - 1)

\* ------------------------------------------------------------- variables
VARIABLES
    inbox,         \* the input folder: file name -> bytes
    idLog,         \* EMAIL_IDS_FILE: [exists, lines]
    records,       \* processed/<id>.json: id -> ProcessedEmail
    attachFiles,   \* files written by save_attachment: path -> bytes
    summary,       \* SUMMARY_FILE: [exists, total_emails, emails]
    index,         \* the documents of the search index, in insertion order
    indexDir,      \* the index directory: "absent", "empty" or "index"
    pc,            \* position of process_folder
    runs,          \* runs started so far
    existing_ids,  \* JsonOrganizer.existing_ids (shared with the parser)
    i,             \* position in email_files
    processed,     \* process_folder counters
    skipped,
    errors,
    cur,           \* processed_email under construction
    k,             \* next attachment of the current file
    sumTmp,        \* summary returned by get_processing_summary
    sumHow,        \* branch it took: "read", "absent" or "unreadable"
    abortCause,    \* why process_folder raised
    outcomes,      \* per file of this run: what process_single_email returned
    accepted,      \* id -> number of times process_email returned a record
    counted,       \* ids of the files this run counted in `processed`
    result,        \* the last call made on a SearchEngine and what it gave
    data_dir,      \* process_folder's data_dir: "default" or "custom"
    shelved,       \* the files under the data directory that is not in use
    msg,           \* the message handed to the parser: its walk() in order
    parsed         \* what the parser's field extractors gave for msg

durable == <<inbox, idLog, records, attachFiles, summary, index, indexDir, shelved>>
aside == <<data_dir, shelved, msg, parsed>>
vars == <<inbox, idLog, records, attachFiles, summary, index, indexDir, pc, runs,
          existing_ids, i, processed, skipped, errors, cur, k, sumTmp, sumHow,
          abortCause, outcomes, accepted, counted, result,
         data_dir, shelved, msg, parsed>>

\* ------------------------------------------------------------ the parser
\* hashlib.sha256(content).hexdigest()[:16]: a function of the bytes alone
\* whose truncation lets two different contents collide.
generate_email_id(content) == content % HashMod

\* _extract_subject: the subject is read from the bytes of the message.
SubjectOf(content) == content

\* _parse_date of the Date header: as with the subject, distinct bytes carry
\* distinct dates.
DateOf(content) == content

\* part.get_filename(): a declared attachment filename is a sequence of path
\* components, with "/" in first position for an absolute path.  The bytes
\* of a message fix the filename it declares: every relative name of up to
\* MaxNameLen components, then every absolute one.
Components == <<"a", "..", ".", "b">>

NumComponents == Len(Components)

RECURSIVE Power(_, _)
Power(b, e) == IF e = 0 THEN 1 ELSE b * Power(b, e - 1)

RECURSIVE NamesUpTo(_)
NamesUpTo(len) == IF len = 0 THEN 0 ELSE Power(NumComponents, len) + NamesUpTo(len - 1)

NumRelativeNames == NamesUpTo(MaxNameLen)

RECURSIVE NameDigits(_, _)
NameDigits(v, len) ==
    IF len = 0 THEN <<>>
    ELSE <<Components[(v % NumComponents) + 1]>> \o NameDigits(v \div NumComponents, len - 1)

RECURSIVE RelativeName(_, _)
RelativeName(m, len) ==
    IF m < Power(NumComponents, len) THEN NameDigits(m, len)
    ELSE RelativeName(m - Power(NumComponents, len), len + 1)

DeclaredName(n) ==
    IF n < NumRelativeNames THEN RelativeName(n, 1)
    ELSE <<"/">> \o RelativeName((n - NumRelativeNames) % NumRelativeNames, 1)

\* The last content that declares a single attachment; the contents after it
\* declare two, with any pair of the first MaxPairName declared names.
LastSingleContent == 1 + 2 * NumRelativeNames

PairContents == (LastSingleContent + 1)..(LastSingleContent + MaxPairName * MaxPairName)

\* _extract_attachments: the named parts of the message in walk order, fixed
\* by its bytes (content 1 has none); two parts of one message carry
\* different bytes.
AttachmentsOf(content) ==
    IF content = 1 THEN <<>>
    ELSE IF content <= LastSingleContent
    THEN << [name |-> DeclaredName(content - 2), content |-> 100 + content] >>
    ELSE LET p == content - LastSingleContent - 1 IN
         << [name |-> DeclaredName(p % MaxPairName), content |-> 100 + content],
            [name |-> DeclaredName((p \div MaxPairName) % MaxPairName),
             content |-> 200 + content] >>

\* _build_email_data
ParsedEmail(content) ==
    [id          |-> generate_email_id(content),
     subject     |-> SubjectOf(content),
     date        |-> DateOf(content),
     attachments |-> AttachmentsOf(content)]

\* The duplicate check of the parser that JsonOrganizer constructs with
\* existing_ids and that raises DuplicateEmailError.
IsDuplicateEmail(id, ids) == id \in ids

\* ---------------------------------------------------------- file handler
\* pathlib drops "." components when it parses a path.
PathParts(name) == SelectSeq(name, LAMBDA c : c # ".")

\* Path(name).name: the final component; empty for "", "." and the root.
PathName(name) ==
    LET p == PathParts(name) IN
    IF Len(p) = 0 \/ p[Len(p)] = "/" THEN "" ELSE p[Len(p)]

SafeFilenameNoStrip(name) == name

\* safe_filename = Path(attachment['name']).name
SafeFilename(name) == IF PathName(name) = "" THEN <<>> ELSE <<PathName(name)>>

\* attachment_dir = self.attachments_dir / email_id
AttachmentDir(id) == <<"attachments", ToString(id)>>

\* attachment_dir / safe_filename: an absolute right operand replaces the left.
JoinPath(dir, rel) == IF Len(rel) > 0 /\ rel[1] = "/" THEN rel ELSE dir \o rel

\* The file the operating system opens for a path: ".." steps to the parent.
RECURSIVE Resolve(_, _)
Resolve(done, rest) ==
    IF Len(rest) = 0 THEN done
    ELSE IF rest[1] = ".." /\ Len(done) > 0 /\ done[Len(done)] \notin {"..", "/"}
         THEN Resolve(SubSeq(done, 1, Len(done) - 1), Tail(rest))
    ELSE IF rest[1] = ".." /\ Len(done) > 0 /\ done[Len(done)] = "/"
         THEN Resolve(done, Tail(rest))
    ELSE Resolve(Append(done, rest[1]), Tail(rest))

\* Directories of the store (created by _ensure_directories and by
\* save_attachment's mkdir); the store root is the empty path.
IsDirectory(path) ==
    \/ path = <<>>
    \/ path = <<"/">>
    \/ path = <<"attachments">>
    \/ path = <<"processed">>
    \/ \E id \in Ids : path = AttachmentDir(id)
    \/ (Len(path) > 0 /\ path[Len(path)] = "..")

\* file_path of save_attachment
AttachmentPath(id, name) == JoinPath(AttachmentDir(id), SafeFilename(name))

\* ------------------------------------------------------------- organizer
NoEmail == [id |-> -1, original_file |-> 0, subject |-> 0, date |-> 0,
            content |-> 0, attachments |-> <<>>]
NoSummary == [total_emails |-> 0, emails |-> <<>>]

BuildProcessedEmailIdFromName(raw, content, f) ==
    [id |-> f % HashMod, original_file |-> f, subject |-> raw.subject,
     date |-> raw.date, content |-> content, attachments |-> <<>>]

\* _build_processed_email
BuildProcessedEmail(raw, content, f) ==
    [id |-> raw.id, original_file |-> f, subject |-> raw.subject,
     date |-> raw.date, content |-> content, attachments |-> <<>>]

\* The entry _update_summary appends
SummaryEntry(email) ==
    [id |-> email.id, subject |-> email.subject, date |-> email.date]

\* sorted(email_ids) as written by save_existing_ids
RECURSIVE SortedSeq(_)
SortedSeq(S) ==
    IF S = {} THEN <<>>
    ELSE LET m == CHOOSE x \in S : \A y \in S : x <= y
         IN <<m>> \o SortedSeq(S \ {m})

\* {line.strip() for line in f if line.strip()}
LinesToIds(lines) == {lines[n] : n \in 1..Len(lines)}

LogIds == LinesToIds(idLog.lines)
RecordIds == DOMAIN records
IndexIds == {index[n].id : n \in 1..Len(index)}
SummaryIds == {summary.emails[n].id : n \in 1..Len(summary.emails)}

Bump(f, id) == [f EXCEPT ![id] = IF @ < 2 THEN @ + 1 ELSE @]

\* ---------------------------------------------------------- search engine
SEARCHABLE_FIELDS == {"subject", "content", "sender", "recipient"}

REQUIRED_FIELDS_TO_INDEX == {"id", "metadata", "content"}

\* MAX_RESULTS = DEFAULT_MAX_RESULTS of src.config.settings: a fixed positive
\* number.
DEFAULT_MAX_RESULTS == 1

MAX_RESULTS == DEFAULT_MAX_RESULTS

Terms == 1..NumTerms
Variants == 1..NumVariants
Dates == 1..NumVariants
Blank == 0           \* a run of whitespace in a query string
NoDate == 0          \* None as a bound of a date range

\* The records handed to index_email: variant v fixes the words of each text
\* field and the date; `present` is the set of top-level keys the record has.
SubjectWords(v) == {t \in Terms : (v \div Power(2, t - 1)) % 2 = 1}

ContentWords(v) == Terms \ SubjectWords(v)

SenderWords(v) == {t \in Terms : t = v}

RecipientList(v) == [n \in 1..(v - 1) |-> {((n - 1) % NumTerms) + 1}]

EmailData(id, v, present) ==
    [present  |-> present,
     id       |-> id,
     metadata |-> [sender |-> SenderWords(v), recipient |-> RecipientList(v),
                   subject |-> SubjectWords(v), date |-> v],
     content  |-> ContentWords(v)]

\* ' '.join(email_data['metadata']['recipient'])
JoinRecipients(list) == UNION {list[n] : n \in 1..Len(list)}

\* The keyword arguments of writer.update_document
SchemaDocument(email) ==
    [id        |-> email.id,
     sender    |-> email.metadata.sender,
     recipient |-> JoinRecipients(email.metadata.recipient),
     subject   |-> email.metadata.subject,
     content   |-> email.content,
     date      |-> email.metadata.date]

\* dict(result): the stored fields of a hit (content is indexed, not stored)
StoredFields(doc) ==
    [id |-> doc.id, sender |-> doc.sender, recipient |-> doc.recipient,
     subject |-> doc.subject, date |-> doc.date]

UpdateDocumentAppends(ix, doc) == Append(ix, doc)

\* writer.update_document + commit: id is the unique field of the schema, so
\* the documents with the same id are deleted before the new one is added.
UpdateDocument(ix, doc) == Append(SelectSeq(ix, LAMBDA d : d.id # doc.id), doc)

NoCall == [op |-> "none", kind |-> "ok", accessed |-> FALSE, args |-> <<>>,
           docs |-> {}, before |-> <<>>]

EnsureIndexRecreates(dir, ix, mkdirOk, ioOk) ==
    IF ~mkdirOk THEN [raised |-> TRUE, dir |-> dir, ix |-> ix]
    ELSE IF ~ioOk THEN [raised |-> TRUE, dir |-> "empty", ix |-> <<>>]
    ELSE [raised |-> FALSE, dir |-> "index", ix |-> <<>>]

\* The schema the engine of core/search_engine.py constructs, and the one the
\* engine of classes/search_engine.py (the one cli/ingest.py imports) stores
\* in the index it creates.
CoreSchema == {"id", "sender", "recipient", "subject", "content", "date"}

ClassesSchema == {"id", "sender", "recipient", "subject", "body", "date"}

\* The schema stored in an index directory: "index" is an index created by
\* this engine, "index_body" one created by the engine of classes/.
StoredSchema(dir) ==
    IF dir = "index" THEN CoreSchema
    ELSE IF dir = "index_body" THEN ClassesSchema
    ELSE {}

\* _ensure_index: an absent directory is created and an empty index created
\* in it; an existing directory is opened, which raises when it holds no
\* index and otherwise loads the index with the schema stored in it
\* (open_dir is not given self.schema).  Any exception is raised as
\* SearchError.
EnsureIndex(dir, ix, mkdirOk, ioOk) ==
    IF dir = "absent"
    THEN IF ~mkdirOk THEN [raised |-> TRUE, dir |-> "absent", ix |-> ix]
         ELSE IF ~ioOk THEN [raised |-> TRUE, dir |-> "empty", ix |-> ix]
         ELSE [raised |-> FALSE, dir |-> "index", ix |-> <<>>]
    ELSE IF dir = "empty" THEN [raised |-> TRUE, dir |-> dir, ix |-> ix]
    ELSE [raised |-> ~ioOk, dir |-> dir, ix |-> ix]

\* ------------------------------------------------------------------ Init
\* A data directory nothing was written to; no message parsed yet.
EmptyDir == [records |-> <<>>, attachFiles |-> <<>>, index |-> <<>>, indexDir |-> "absent"]

NoParse == [called |-> FALSE]

MissingText == [present |-> FALSE, value |-> ""]

MissingList == [present |-> FALSE, value |-> <<>>]

NoMessage == [subject |-> MissingText, from |-> MissingText, to |-> MissingList,
              cc |-> MissingList, bcc |-> MissingList, parts |-> <<>>]

InitStore ==
    /\ idLog = [exists |-> FALSE, lines |-> <<>>]
    /\ records = <<>>
    /\ attachFiles = <<>>
    /\ summary = [exists |-> FALSE, total_emails |-> 0, emails |-> <<>>]
    /\ index = <<>>
    /\ indexDir = "absent"
    /\ result = NoCall
    /\ data_dir = "default"
    /\ shelved = EmptyDir
    /\ msg = NoMessage
    /\ parsed = NoParse
    /\ pc = "idle"
    /\ runs = 0
    /\ existing_ids = {}
    /\ i = 0
    /\ processed = 0
    /\ skipped = 0
    /\ errors = 0
    /\ cur = NoEmail
    /\ k = 0
    /\ sumTmp = NoSummary
    /\ sumHow = "none"
    /\ abortCause = "none"
    /\ outcomes = <<>>
    /\ accepted = [id \in Ids |-> 0]
    /\ counted = {}

\* An empty store and an input folder of NumFiles files.
Init ==
    /\ inbox \in [FileNames -> Contents]
    /\ InitStore

\* ------------------------------------------------------- process_folder
ResetRun ==
    /\ processed' = 0
    /\ skipped' = 0
    /\ errors' = 0
    /\ cur' = NoEmail
    /\ k' = 0
    /\ sumTmp' = NoSummary
    /\ sumHow' = "none"
    /\ outcomes' = <<>>
    /\ counted' = {}

\* process_single_email: (success, was_skipped) for what process_email and
\* index_email did: "record" (a record was returned and indexed), "none"
\* (process_email returned None), anything else names the step that raised.
ProcessSingleResultCountsErrors(outcome) ==
    CASE outcome = "none" -> <<FALSE, TRUE>>
      [] OTHER            -> <<TRUE, FALSE>>

ProcessSingleResultSkipsErrors(outcome) ==
    CASE outcome = "record" -> <<TRUE, FALSE>>
      [] OTHER              -> <<FALSE, TRUE>>

ProcessSingleResultNoneIsError(outcome) ==
    CASE outcome = "record" -> <<TRUE, FALSE>>
      [] OTHER              -> <<FALSE, FALSE>>

ProcessSingleResult(outcome) ==
    CASE outcome = "record" -> <<TRUE, FALSE>>
      [] outcome = "none"   -> <<FALSE, TRUE>>
      [] OTHER              -> <<FALSE, FALSE>>

\* The counting of process_folder's loop body and the step to the next file.
Advance(outcome) ==
    LET r == ProcessSingleResult(outcome) IN
    /\ counted' = IF r[1] THEN counted \cup {generate_email_id(inbox[i])} ELSE counted
    /\ processed' = IF r[1] THEN processed + 1 ELSE processed
    /\ skipped' = IF ~r[1] /\ r[2] THEN skipped + 1 ELSE skipped
    /\ errors' = IF ~r[1] /\ ~r[2] THEN errors + 1 ELSE errors
    /\ outcomes' = Append(outcomes, outcome)
    /\ i' = i + 1
    /\ pc' = "next"
    /\ cur' = NoEmail
    /\ k' = 0
    /\ sumTmp' = NoSummary
    /\ sumHow' = "none"

\* load_existing_ids of cli/ingest.py: an absent log gives the empty set; the
\* read is not guarded, so an unreadable log raises.
LoadExistingIdsFallsBack(log, readable) ==
    IF log.exists /\ readable THEN [raised |-> FALSE, ids |-> LinesToIds(log.lines)]
    ELSE [raised |-> FALSE, ids |-> {}]

LoadExistingIds(log, readable) ==
    IF ~log.exists THEN [raised |-> FALSE, ids |-> {}]
    ELSE IF readable THEN [raised |-> FALSE, ids |-> LinesToIds(log.lines)]
    ELSE [raised |-> TRUE, ids |-> {}]

\* process_folder up to the loop: an exception of load_existing_ids, of the
\* check that a custom data_dir holds an index directory, or of
\* SearchEngine(index_dir) leaves process_folder and main exits.
StartRun ==
    /\ pc \in {"idle", "done", "aborted"}
    /\ runs < MaxRuns
    /\ runs' = runs + 1
    /\ ResetRun
    /\ \E readable, mkdirOk, ioOk \in BOOLEAN :
         LET loaded == LoadExistingIds(idLog, readable)
             engine == EnsureIndex(indexDir, index, mkdirOk, ioOk)
         IN
         IF loaded.raised
         THEN /\ pc' = "aborted"
              /\ abortCause' = "idlog"
              /\ existing_ids' = {}
              /\ i' = 0
              /\ UNCHANGED <<index, indexDir>>
         ELSE IF data_dir = "custom" /\ indexDir = "absent"
         THEN /\ pc' = "aborted"
              /\ abortCause' = "index_dir"
              /\ existing_ids' = {}
              /\ i' = 0
              /\ UNCHANGED <<index, indexDir>>
         ELSE IF engine.raised
         THEN /\ pc' = "aborted"
              /\ abortCause' = "index_init"
              /\ existing_ids' = {}
              /\ i' = 0
              /\ index' = engine.ix
              /\ indexDir' = engine.dir
         ELSE /\ pc' = "next"
              /\ abortCause' = "none"
              /\ existing_ids' = loaded.ids
              /\ i' = 1
              /\ index' = engine.ix
              /\ indexDir' = engine.dir
    /\ UNCHANGED <<inbox, idLog, records, attachFiles, summary, accepted, result>>
    /\ UNCHANGED aside

\* process_email, first part: parse_email_file and _build_processed_email.
ParseEmailFile ==
    /\ pc = "next"
    /\ i <= NumFiles
    /\ \E readOk \in BOOLEAN :
         LET raw == ParsedEmail(inbox[i]) IN
         IF ~readOk
         THEN Advance("read_error")
         ELSE IF IsDuplicateEmail(raw.id, existing_ids)
         THEN Advance("none")
         ELSE /\ cur' = BuildProcessedEmail(raw, inbox[i], i)
              /\ k' = 1
              /\ pc' = "attach"
              /\ UNCHANGED <<i, processed, skipped, errors, sumTmp, sumHow, outcomes, counted>>
    /\ UNCHANGED <<durable, runs, existing_ids, abortCause, accepted, result>>
    /\ UNCHANGED aside

\* _process_attachments, one iteration: save_attachment and the append of
\* the attachment entry.
SaveAttachment ==
    /\ pc = "attach"
    /\ k <= Len(AttachmentsOf(inbox[i]))
    /\ LET att == AttachmentsOf(inbox[i])[k]
           file_path == AttachmentPath(cur.id, att.name)
           target == Resolve(<<>>, file_path)
       IN \E writeOk \in BOOLEAN :
            IF writeOk /\ ~IsDirectory(target)
            THEN /\ attachFiles' = (target :> att.content) @@ attachFiles
                 /\ cur' = [cur EXCEPT !.attachments =
                              Append(@, [name |-> att.name, location |-> file_path])]
                 /\ k' = k + 1
                 /\ UNCHANGED <<pc, i, processed, skipped, errors, sumTmp, sumHow, outcomes, counted>>
            ELSE /\ Advance("attachment_error")
                 /\ UNCHANGED attachFiles
    /\ UNCHANGED <<inbox, idLog, records, summary, index, runs, existing_ids,
                   abortCause, accepted, indexDir, result>>
    /\ UNCHANGED aside

\* save_processed_email
SaveProcessedEmail ==
    /\ pc = "attach"
    /\ k > Len(AttachmentsOf(inbox[i]))
    /\ \E writeOk \in BOOLEAN :
         IF writeOk
         THEN /\ records' = (cur.id :> cur) @@ records
              /\ pc' = "summary"
              /\ UNCHANGED <<i, processed, skipped, errors, cur, k, sumTmp, sumHow, outcomes, counted>>
         ELSE /\ Advance("save_error")
              /\ UNCHANGED records
    /\ UNCHANGED <<inbox, idLog, attachFiles, summary, index, runs, existing_ids,
                   abortCause, accepted, indexDir, result>>
    /\ UNCHANGED aside

\* _create_default_summary: the default is returned whether or not its
\* write succeeds.
DefaultSummary == [total_emails |-> 0, emails |-> <<>>]

SummaryFile(s) == [exists |-> TRUE, total_emails |-> s.total_emails, emails |-> s.emails]

\* get_processing_summary: the summary returned and the file it leaves.
ReadSummary(readOk, writeOk) ==
    IF summary.exists /\ readOk
    THEN [result |-> [total_emails |-> summary.total_emails, emails |-> summary.emails],
          file |-> summary, how |-> "read"]
    ELSE [result |-> DefaultSummary,
          file |-> IF writeOk THEN SummaryFile(DefaultSummary) ELSE summary,
          how |-> IF summary.exists THEN "unreadable" ELSE "absent"]

\* _update_summary, first part: summary = self.get_processing_summary()
GetProcessingSummary ==
    /\ pc = "summary"
    /\ \E readOk, writeOk \in BOOLEAN :
         LET r == ReadSummary(readOk, writeOk) IN
         /\ sumTmp' = r.result
         /\ sumHow' = r.how
         /\ summary' = r.file
    /\ pc' = "summary_write"
    /\ UNCHANGED <<inbox, idLog, records, attachFiles, index, runs, existing_ids,
                   i, processed, skipped, errors, cur, k, abortCause, outcomes,
                   accepted, counted, indexDir, result>>
    /\ UNCHANGED aside

\* _update_summary, second part: count, append, rewrite; a failure is logged
\* and swallowed.
UpdatedSummaryNoCount(s, email) ==
    [total_emails |-> s.total_emails,
     emails |-> Append(s.emails, SummaryEntry(email))]

UpdatedSummary(s, email) ==
    [total_emails |-> s.total_emails + 1,
     emails |-> Append(s.emails, SummaryEntry(email))]

WriteSummary ==
    /\ pc = "summary_write"
    /\ \E writeOk \in BOOLEAN :
         summary' = IF writeOk THEN SummaryFile(UpdatedSummary(sumTmp, cur)) ELSE summary
    /\ pc' = "track"
    /\ UNCHANGED <<inbox, idLog, records, attachFiles, index, runs, existing_ids,
                   i, processed, skipped, errors, cur, k, sumTmp, sumHow, abortCause,
                   outcomes, accepted, counted, indexDir, result>>
    /\ UNCHANGED aside

\* _track_email_id: the in-memory add, then the append to the id log.
TrackedIdsForgets(ids, id) == ids

TrackedIds(ids, id) == ids \cup {id}

TrackedLog(log, id) == [exists |-> TRUE, lines |-> Append(log.lines, id)]

TrackEmailId ==
    /\ pc = "track"
    /\ existing_ids' = TrackedIds(existing_ids, cur.id)
    /\ \E writeOk \in BOOLEAN :
         IF writeOk
         THEN /\ idLog' = TrackedLog(idLog, cur.id)
              /\ accepted' = Bump(accepted, cur.id)
              /\ pc' = "index"
              /\ UNCHANGED <<i, processed, skipped, errors, cur, k, sumTmp, sumHow, outcomes, counted>>
         ELSE /\ Advance("track_error")
              /\ UNCHANGED <<idLog, accepted>>
    /\ UNCHANGED <<inbox, records, attachFiles, summary, index, runs, abortCause,
                   indexDir, result>>
    /\ UNCHANGED aside

\* index_email: writer.update_document replaces the document of the id.
IndexedDocument(email) == [id |-> email.id, subject |-> email.subject, content |-> email.content]

IndexEmail ==
    /\ pc = "index"
    /\ \E writeOk \in BOOLEAN :
         IF writeOk
         THEN /\ index' = UpdateDocument(index, IndexedDocument(cur))
              /\ Advance("record")
         ELSE /\ Advance("index_error")
              /\ UNCHANGED index
    /\ UNCHANGED <<inbox, idLog, records, attachFiles, summary, runs, existing_ids,
                   abortCause, accepted, indexDir, result>>
    /\ UNCHANGED aside

SavedLogEveryId(ids) == [exists |-> TRUE, lines |-> SortedSeq(Ids)]

\* save_existing_ids(json_organizer.get_email_ids()) after the loop
SavedLog(ids) == [exists |-> TRUE, lines |-> SortedSeq(ids)]

SaveExistingIds ==
    /\ pc = "next"
    /\ i > NumFiles
    /\ \E writeOk \in BOOLEAN :
         IF writeOk
         THEN /\ idLog' = SavedLog(existing_ids)
              /\ pc' = "report"
              /\ UNCHANGED abortCause
         ELSE /\ pc' = "aborted"
              /\ abortCause' = "save_ids"
              /\ UNCHANGED idLog
    /\ UNCHANGED <<inbox, records, attachFiles, summary, index, runs, existing_ids,
                   i, processed, skipped, errors, cur, k, sumTmp, sumHow, outcomes,
                   accepted, counted, indexDir, result>>
    /\ UNCHANGED aside

\* log_processing_results(..., json_organizer.get_processing_summary())
LogProcessingResults ==
    /\ pc = "report"
    /\ \E readOk, writeOk \in BOOLEAN :
         LET r == ReadSummary(readOk, writeOk) IN
         /\ sumTmp' = r.result
         /\ sumHow' = r.how
         /\ summary' = r.file
    /\ pc' = "done"
    /\ UNCHANGED <<inbox, idLog, records, attachFiles, index, runs, existing_ids,
                   i, processed, skipped, errors, cur, k, abortCause, outcomes,
                   accepted, counted, indexDir, result>>
    /\ UNCHANGED aside

\* The process is terminated externally: everything in memory is lost.
Crash ==
    /\ pc \notin {"idle", "done", "aborted"}
    /\ pc' = "idle"
    /\ existing_ids' = {}
    /\ i' = 0
    /\ abortCause' = "none"
    /\ ResetRun
    /\ UNCHANGED <<durable, runs, accepted, result, data_dir, msg, parsed>>

Next ==
    \/ StartRun
    \/ ParseEmailFile
    \/ SaveAttachment
    \/ SaveProcessedEmail
    \/ GetProcessingSummary
    \/ WriteSummary
    \/ TrackEmailId
    \/ IndexEmail
    \/ SaveExistingIds
    \/ LogProcessingResults
    \/ Crash

Spec == Init /\ [][Next]_vars

\* The process has exited and the next invocation names the other data
\* directory (-d): FileHandler puts processed/ and attachments/ under it and
\* process_folder takes its search_index, while EMAIL_IDS_FILE and
\* SUMMARY_FILE stay where they are.
SwitchDataDir ==
    /\ pc \in {"idle", "done", "aborted"}
    /\ data_dir' = (IF data_dir = "default" THEN "custom" ELSE "default")
    /\ records' = shelved.records
    /\ attachFiles' = shelved.attachFiles
    /\ index' = shelved.index
    /\ indexDir' = shelved.indexDir
    /\ shelved' = [records |-> records, attachFiles |-> attachFiles,
                   index |-> index, indexDir |-> indexDir]
    /\ pc' = "idle"
    /\ existing_ids' = {}
    /\ i' = 0
    /\ abortCause' = "none"
    /\ ResetRun
    /\ UNCHANGED <<inbox, idLog, summary, runs, accepted, result, msg, parsed>>

NextStores ==
    \/ Next
    \/ SwitchDataDir

\* The pipeline over two data directories; the custom one may already hold
\* the index that an earlier SearchEngine(custom/search_index) created.
InitStores ==
    /\ inbox \in [FileNames -> Contents]
    /\ idLog = [exists |-> FALSE, lines |-> <<>>]
    /\ records = <<>>
    /\ attachFiles = <<>>
    /\ summary = [exists |-> FALSE, total_emails |-> 0, emails |-> <<>>]
    /\ index = <<>>
    /\ indexDir = "absent"
    /\ result = NoCall
    /\ data_dir = "default"
    /\ shelved \in {EmptyDir, [EmptyDir EXCEPT !.indexDir = "index"]}
    /\ msg = NoMessage
    /\ parsed = NoParse
    /\ pc = "idle"
    /\ runs = 0
    /\ existing_ids = {}
    /\ i = 0
    /\ processed = 0
    /\ skipped = 0
    /\ errors = 0
    /\ cur = NoEmail
    /\ k = 0
    /\ sumTmp = NoSummary
    /\ sumHow = "none"
    /\ abortCause = "none"
    /\ outcomes = <<>>
    /\ accepted = [id \in Ids |-> 0]
    /\ counted = {}

SpecStores == InitStores /\ [][NextStores]_vars

\* The same pipeline over an input folder whose first file declares any of
\* the attachment filenames and whose other files have no attachment.
AttachContents == 2..(1 + 2 * NumRelativeNames)

InitAttach ==
    /\ inbox \in {[f \in FileNames |-> IF f = 1 THEN c ELSE 1] : c \in AttachContents}
    /\ InitStore

SpecAttach == InitAttach /\ [][Next]_vars

\* The same pipeline over an input folder whose first file declares two
\* attachments and whose other files have none.
InitPair ==
    /\ inbox \in {[f \in FileNames |-> IF f = 1 THEN c ELSE 1] : c \in PairContents}
    /\ InitStore

SpecPair == InitPair /\ [][Next]_vars

\* ------------------------------------------- calls on a SearchEngine
\* One call at a time is made on the engine; `result` holds the call and
\* what it gave until the caller has taken it.
\* The query strings, field selections, date ranges and result caps a caller
\* passes to search; "attachments" is a name outside SEARCHABLE_FIELDS.
Queries == UNION {[1..n -> {Blank} \cup Terms] : n \in 0..MaxQueryLen}

SelectableFields == {"subject", "content", "attachments"}

NoFields == [given |-> FALSE, names |-> {}]

FieldSelections == {NoFields} \cup {[given |-> TRUE, names |-> S] : S \in SUBSET SelectableFields}

NoRange == [given |-> FALSE, start |-> NoDate, end |-> NoDate]

DateRanges ==
    {NoRange} \cup {[given |-> TRUE, start |-> a, end |-> b] : a, b \in {NoDate} \cup Dates}

NoCap == [given |-> FALSE, value |-> 0]

Caps == {NoCap} \cup {[given |-> TRUE, value |-> c] : c \in (-1)..MaxCap}

\* The words of a query string; query.strip() is empty when it has none.
QueryTerms(query) == {query[n] : n \in 1..Len(query)} \ {Blank}

IsBlank(query) == QueryTerms(query) = {}

\* result_limit = max_results or self.MAX_RESULTS
ResultLimit(max_results) ==
    IF max_results.given /\ max_results.value # 0 THEN max_results.value ELSE MAX_RESULTS

SearchFieldsIgnoresSelection(fields) == SEARCHABLE_FIELDS

\* search_fields = fields if fields else self.SEARCHABLE_FIELDS
SearchFields(fields) ==
    IF fields.given /\ fields.names # {} THEN fields.names ELSE SEARCHABLE_FIELDS

EveryQuery == [every |-> TRUE, terms |-> {}, fields |-> {}]

BuildQueryNoDateFilter(query, fields, date_range) ==
    [raised |-> FALSE,
     text   |-> IF IsBlank(query) THEN EveryQuery
                ELSE [every |-> FALSE, terms |-> QueryTerms(query), fields |-> fields],
     dated  |-> FALSE, start |-> NoDate, end |-> NoDate]

\* _build_query: Every() or the multifield parse of the text, ANDed with a
\* DateRange when date_range is given; with both bounds None no branch binds
\* date_query and the And([...]) raises.
BuildQuery(query, fields, date_range) ==
    LET text == IF IsBlank(query) THEN EveryQuery
                ELSE [every |-> FALSE, terms |-> QueryTerms(query), fields |-> fields]
    IN
    IF ~date_range.given
    THEN [raised |-> FALSE, text |-> text, dated |-> FALSE, start |-> NoDate, end |-> NoDate]
    ELSE [raised |-> (date_range.start = NoDate /\ date_range.end = NoDate),
          text |-> text, dated |-> TRUE,
          start |-> date_range.start, end |-> date_range.end]

\* MultifieldParser: every word in at least one of the fields; DateRange:
\* both bounds inclusive, None open.
Matches(doc, q) ==
    /\ q.text.every \/ \A t \in q.text.terms : \E f \in q.text.fields : t \in doc[f]
    /\ q.dated => /\ (q.start = NoDate \/ q.start <= doc.date)
                  /\ (q.end = NoDate \/ doc.date <= q.end)

Hits(ix, q) == {StoredFields(ix[n]) : n \in {m \in 1..Len(ix) : Matches(ix[m], q)}}

Smaller(a, b) == IF a <= b THEN a ELSE b

TopHitsUnlimited(hits, limit) == {hits}

\* searcher.search(query, limit=result_limit): the best `limit` hits
TopHits(hits, limit) ==
    {S \in SUBSET hits : Cardinality(S) = Smaller(limit, Cardinality(hits))}

CallResult(op, kind, accessed, args, docs) ==
    [op |-> op, kind |-> kind, accessed |-> accessed, args |-> args, docs |-> docs,
     before |-> [dir |-> indexDir, ix |-> index]]

\* SearchEngine(index_dir)
EnsureIndexCall ==
    /\ result = NoCall
    /\ \E mkdirOk, ioOk \in BOOLEAN :
         LET engine == EnsureIndex(indexDir, index, mkdirOk, ioOk) IN
         /\ index' = engine.ix
         /\ indexDir' = engine.dir
         /\ result' = CallResult("init", IF engine.raised THEN "SearchError" ELSE "ok",
                                 TRUE, <<>>, {})
    /\ UNCHANGED <<inbox, idLog, records, attachFiles, summary, pc, runs, existing_ids,
                   i, processed, skipped, errors, cur, k, sumTmp, sumHow, abortCause,
                   outcomes, accepted, counted>>
    /\ UNCHANGED aside

\* process_folder with a data_dir: an absent index directory is refused
\* before any SearchEngine is constructed.
CheckIndexDir ==
    /\ result = NoCall
    /\ indexDir = "absent"
    /\ result' = CallResult("process_folder", "FileNotFoundError", FALSE, <<>>, {})
    /\ UNCHANGED <<durable, pc, runs, existing_ids, i, processed, skipped, errors, cur,
                   k, sumTmp, sumHow, abortCause, outcomes, accepted, counted>>
    /\ UNCHANGED <<data_dir, msg, parsed>>

IndexEmailOutcomeWritesFirst(ix, email, writeOk) ==
    IF REQUIRED_FIELDS_TO_INDEX \ email.present # {}
    THEN [kind |-> "ValueError", accessed |-> TRUE,
          ix |-> UpdateDocument(ix, SchemaDocument(email))]
    ELSE [kind |-> "ok", accessed |-> TRUE, ix |-> UpdateDocument(ix, SchemaDocument(email))]

\* index_email: the required keys are checked before the writer is opened; a
\* failure of the writer is raised as SearchError and commits nothing.
IndexEmailOutcome(ix, email, writeOk) ==
    IF REQUIRED_FIELDS_TO_INDEX \ email.present # {}
    THEN [kind |-> "ValueError", accessed |-> FALSE, ix |-> ix]
    ELSE IF ~writeOk
    THEN [kind |-> "SearchError", accessed |-> TRUE, ix |-> ix]
    ELSE [kind |-> "ok", accessed |-> TRUE, ix |-> UpdateDocument(ix, SchemaDocument(email))]

IndexEmailCall ==
    /\ result = NoCall
    /\ indexDir = "index"
    /\ \E id \in Ids, v \in Variants, present \in SUBSET REQUIRED_FIELDS_TO_INDEX,
          writeOk \in BOOLEAN :
         LET email == EmailData(id, v, present)
             out == IndexEmailOutcome(index, email, writeOk)
         IN /\ index' = out.ix
            /\ result' = CallResult("index_email", out.kind, out.accessed, email, {})
    /\ UNCHANGED <<inbox, idLog, records, attachFiles, summary, indexDir, pc, runs,
                   existing_ids, i, processed, skipped, errors, cur, k, sumTmp, sumHow,
                   abortCause, outcomes, accepted, counted>>
    /\ UNCHANGED aside

\* search
SearchCall ==
    /\ result = NoCall
    /\ indexDir = "index"
    /\ \E query \in Queries, fields \in FieldSelections, date_range \in DateRanges,
          max_results \in Caps, ioOk \in BOOLEAN :
         LET args == [query |-> query, fields |-> fields, date_range |-> date_range,
                      max_results |-> max_results, ioOk |-> ioOk]
             result_limit == ResultLimit(max_results)
             search_fields == SearchFields(fields)
             q == BuildQuery(query, search_fields, date_range)
         IN
         IF result_limit < 1 \/ search_fields \ SEARCHABLE_FIELDS # {}
         THEN result' = CallResult("search", "ValueError", FALSE, args, {})
         ELSE IF ~ioOk \/ q.raised
         THEN result' = CallResult("search", "SearchError", TRUE, args, {})
         ELSE \E docs \in TopHits(Hits(index, q), result_limit) :
                result' = CallResult("search", "ok", TRUE, args, docs)
    /\ UNCHANGED <<durable, pc, runs, existing_ids, i, processed, skipped, errors, cur,
                   k, sumTmp, sumHow, abortCause, outcomes, accepted, counted>>
    /\ UNCHANGED aside

\* The caller has taken what the call gave and is free to make another.
ReturnToCaller ==
    /\ result # NoCall
    /\ result' = NoCall
    /\ UNCHANGED <<durable, pc, runs, existing_ids, i, processed, skipped, errors, cur,
                   k, sumTmp, sumHow, abortCause, outcomes, accepted, counted>>
    /\ UNCHANGED aside

NextSearch ==
    \/ EnsureIndexCall
    \/ CheckIndexDir
    \/ IndexEmailCall
    \/ SearchCall
    \/ ReturnToCaller

\* A store on which only SearchEngine calls are made.
InitSearch ==
    /\ inbox = [f \in FileNames |-> 1]
    /\ InitStore

SpecSearch == InitSearch /\ [][NextSearch]_vars

\* The same calls when the index directory may have been created by the
\* engine of classes/search_engine.py.
InitSchema ==
    /\ inbox = [f \in FileNames |-> 1]
    /\ idLog = [exists |-> FALSE, lines |-> <<>>]
    /\ records = <<>>
    /\ attachFiles = <<>>
    /\ summary = [exists |-> FALSE, total_emails |-> 0, emails |-> <<>>]
    /\ index = <<>>
    /\ indexDir \in {"absent", "index_body"}
    /\ result = NoCall
    /\ data_dir = "default"
    /\ shelved = EmptyDir
    /\ msg = NoMessage
    /\ parsed = NoParse
    /\ pc = "idle"
    /\ runs = 0
    /\ existing_ids = {}
    /\ i = 0
    /\ processed = 0
    /\ skipped = 0
    /\ errors = 0
    /\ cur = NoEmail
    /\ k = 0
    /\ sumTmp = NoSummary
    /\ sumHow = "none"
    /\ abortCause = "none"
    /\ outcomes = <<>>
    /\ accepted = [id \in Ids |-> 0]
    /\ counted = {}

SpecSchema == InitSchema /\ [][NextSearch]_vars

\* ------------------------------------------- EmailParser on one message
\* A message is its headers and the parts msg.walk() yields, the message
\* itself first.  A text header is absent or has a string value; an address
\* header is absent or has a value given as its comma-separated fields (no
\* field: the empty string).  The payload of a part that holds parts
\* (multipart/*, message/rfc822) is a list, for which
\* get_payload(decode=True) gives None.
MaxParts == 3

DEFAULT_SUBJECT == "[No Subject]"

DEFAULT_SENDER == "[No Sender]"

DEFAULT_RECIPIENTS == <<"[No Recipients]">>

DEFAULT_BODY == "[Could not extract email body]"

HTML_ONLY == "This email contains HTML content only."

NoFilename == "(no filename)"

NonePayload == "(None)"

Texts == {"", "a", "b"}

TextHeaders == {MissingText, [present |-> TRUE, value |-> ""],
                [present |-> TRUE, value |-> "s"]}

ToHeaders == {MissingList, [present |-> TRUE, value |-> <<>>],
              [present |-> TRUE, value |-> <<"a@x">>],
              [present |-> TRUE, value |-> <<" ", "">>]}

CcHeaders == {MissingList, [present |-> TRUE, value |-> <<" c@x">>]}

Leaves ==
    [maintype : {"text"}, subtype : {"plain", "html", "other"},
     filename : {NoFilename, "f"}, payload : Texts]
    \cup [maintype : {"application"}, subtype : {"other"},
          filename : {NoFilename, "f"}, payload : Texts]

Containers ==
    [maintype : {"multipart"}, subtype : {"mixed"},
     filename : {NoFilename, "f"}, payload : {NonePayload}]
    \cup [maintype : {"message"}, subtype : {"rfc822"},
          filename : {NoFilename, "f"}, payload : {NonePayload}]

\* The walks of the messages of at most MaxParts parts: a single leaf, or a
\* container followed by the parts under it; a message/rfc822 part is
\* followed by the message it holds.
Walks ==
    {<<p>> : p \in Leaves}
    \cup {w \in UNION {[1..n -> Leaves \cup Containers] : n \in 2..MaxParts} :
             /\ w[1] \in Containers
             /\ w[Len(w)].maintype # "message"}

Messages ==
    [subject : TextHeaders, from : TextHeaders, to : ToHeaders, cc : CcHeaders,
     bcc : CcHeaders, parts : Walks]

\* msg.get(name, failobj)
Get(header, failobj) == IF header.present THEN header.value ELSE failobj

\* _extract_subject
ExtractSubject(m) ==
    LET subject == Get(m.subject, "") IN
    IF subject # "" THEN subject ELSE DEFAULT_SUBJECT

\* _extract_sender
ExtractSender(m) == Get(m.from, DEFAULT_SENDER)

\* addr.strip()
Strip(addr) ==
    IF addr = " " THEN ""
    ELSE IF addr = " c@x" THEN "c@x"
    ELSE addr

\* the addresses one header adds: none when msg.get(header) is None or ''
AddressesOf(header) ==
    IF header.present /\ header.value # <<>>
    THEN [n \in 1..Len(header.value) |-> Strip(header.value[n])]
    ELSE <<>>

\* _extract_recipients
ExtractRecipients(m) ==
    LET recipients == AddressesOf(m.to) \o AddressesOf(m.cc) \o AddressesOf(m.bcc) IN
    IF recipients # <<>> THEN recipients ELSE DEFAULT_RECIPIENTS

\* msg.is_multipart(): the payload is a list
IsMultipart(m) == m.parts[1].payload = NonePayload

\* _decode_content raises when get_payload(decode=True) is None
DecodeRaises(part) == part.payload = NonePayload

\* _decode_content: the text of the payload
DecodeContent(part) == part.payload

\* the parts whose payload _process_multipart decodes
IsBodyPart(part) ==
    /\ part.maintype = "text"
    /\ part.filename = NoFilename
    /\ part.subtype \in {"plain", "html"}

\* _process_multipart: each text part without a filename assigns the entry
\* of its subtype, a later part over an earlier one.
RECURSIVE ProcessMultipart(_, _, _)
ProcessMultipart(parts, n, body) ==
    IF n > Len(parts) THEN body
    ELSE IF ~IsBodyPart(parts[n]) THEN ProcessMultipart(parts, n + 1, body)
    ELSE IF DecodeRaises(parts[n]) THEN [body EXCEPT !.raised = TRUE]
    ELSE ProcessMultipart(parts, n + 1,
                          [body EXCEPT ![parts[n].subtype] = DecodeContent(parts[n])])

\* _process_singlepart: only the subtype of the message is looked at
ProcessSinglepart(part, body) ==
    IF part.subtype \notin {"plain", "html"} THEN body
    ELSE IF DecodeRaises(part) THEN [body EXCEPT !.raised = TRUE]
    ELSE [body EXCEPT ![part.subtype] = DecodeContent(part)]

\* _normalize_body_content
NormalizeBodyContent(body) ==
    IF body.plain = "" /\ body.html # ""
    THEN [body EXCEPT !.plain = HTML_ONLY]
    ELSE body

\* _extract_body
ExtractBody(m) ==
    LET start == [plain |-> "", html |-> "", raised |-> FALSE]
        body == IF IsMultipart(m) THEN ProcessMultipart(m.parts, 1, start)
                ELSE ProcessSinglepart(m.parts[1], start)
    IN IF body.raised THEN [plain |-> DEFAULT_BODY, html |-> ""]
       ELSE LET b == NormalizeBodyContent(body) IN [plain |-> b.plain, html |-> b.html]

\* _process_attachment: len(content) raises on a None payload, and the
\* exception is logged and swallowed.
ProcessAttachment(part, n, attachments) ==
    IF part.payload = NonePayload THEN attachments
    ELSE Append(attachments, [name |-> part.filename, part |-> n,
                              type |-> <<part.maintype, part.subtype>>,
                              content |-> part.payload])

\* _extract_attachments
RECURSIVE ExtractAttachments(_, _, _)
ExtractAttachments(parts, n, attachments) ==
    IF n > Len(parts) THEN attachments
    ELSE IF parts[n].maintype = "multipart"
    THEN ExtractAttachments(parts, n + 1, attachments)
    ELSE IF parts[n].filename # NoFilename
    THEN ExtractAttachments(parts, n + 1, ProcessAttachment(parts[n], n, attachments))
    ELSE ExtractAttachments(parts, n + 1, attachments)

\* _build_email_data on the parsed message
ParseMessage ==
    /\ ~parsed.called
    /\ Len(msg.parts) > 0
    /\ parsed' = [called      |-> TRUE,
                  subject     |-> ExtractSubject(msg),
                  sender      |-> ExtractSender(msg),
                  recipient   |-> ExtractRecipients(msg),
                  body        |-> ExtractBody(msg),
                  attachments |-> ExtractAttachments(msg.parts, 1, <<>>)]
    /\ UNCHANGED <<inbox, idLog, records, attachFiles, summary, index, indexDir, pc,
                   runs, existing_ids, i, processed, skipped, errors, cur, k, sumTmp,
                   sumHow, abortCause, outcomes, accepted, counted, result, data_dir,
                   shelved, msg>>

NextParse == ParseMessage

InitParse ==
    /\ inbox = [f \in FileNames |-> 1]
    /\ idLog = [exists |-> FALSE, lines |-> <<>>]
    /\ records = <<>>
    /\ attachFiles = <<>>
    /\ summary = [exists |-> FALSE, total_emails |-> 0, emails |-> <<>>]
    /\ index = <<>>
    /\ indexDir = "absent"
    /\ result = NoCall
    /\ data_dir = "default"
    /\ shelved = EmptyDir
    /\ msg \in Messages
    /\ parsed = NoParse
    /\ pc = "idle"
    /\ runs = 0
    /\ existing_ids = {}
    /\ i = 0
    /\ processed = 0
    /\ skipped = 0
    /\ errors = 0
    /\ cur = NoEmail
    /\ k = 0
    /\ sumTmp = NoSummary
    /\ sumHow = "none"
    /\ abortCause = "none"
    /\ outcomes = <<>>
    /\ accepted = [id \in Ids |-> 0]
    /\ counted = {}

SpecParse == InitParse /\ [][NextParse]_vars

TypeOK ==
    /\ pc \in {"idle", "next", "attach", "summary", "summary_write", "track",
               "index", "report", "done", "aborted"}
    /\ existing_ids \subseteq Ids
    /\ processed + skipped + errors <= NumFiles

\* ---------------------------------------------------------------- claims
Running == {"next", "attach", "summary", "summary_write", "track", "index",
            "report", "done"}
InFile == {"attach", "summary", "summary_write", "track", "index"}

Count(seq, v) == Cardinality({n \in 1..Len(seq) : seq[n] = v})
EntriesFor(id) == Cardinality({n \in 1..Len(summary.emails) : summary.emails[n].id = id})

C1_AcceptedAtMostOnce ==
    \A id \in Ids : accepted[id] <= 1 /\ (accepted[id] = 1 => id \in RecordIds)

C1_SecondIsDuplicate ==
    (/\ pc = "next"
     /\ i <= NumFiles
     /\ accepted[generate_email_id(inbox[i])] >= 1
     /\ pc' # "idle")
    => (/\ pc' = "next"
        /\ i' = i + 1
        /\ records' = records
        /\ outcomes'[i] \in {"none", "read_error"})

\* C1: a fingerprint is accepted at most once over the life of the store and
\* an accepted fingerprint has its record; a file whose fingerprint was
\* accepted before (in this batch or an earlier run) and whose bytes can be
\* read comes out as the duplicate result and writes no record.
C1_DedupIdempotence == []C1_AcceptedAtMostOnce /\ [][C1_SecondIsDuplicate]_vars

C1_Witness ==
    /\ Len(outcomes) >= 2
    /\ inbox[1] = inbox[2]
    /\ outcomes[1] = "record"
    /\ outcomes[2] = "none"
    /\ accepted[generate_email_id(inbox[1])] = 1
    /\ generate_email_id(inbox[1]) \in RecordIds

\* C2: a file whose record was written before an interruption is a duplicate
\* for the re-run: no step writes the record of an id that already has one,
\* and no step appends a summary entry for an id that already has one.
C2_RerunSkipsWrittenRecords ==
    [][/\ (pc = "attach" /\ pc' = "summary") => cur.id \notin RecordIds
       /\ (pc = "summary_write" /\ pc' = "track" /\ summary' # summary)
             => EntriesFor(cur.id) = 0]_vars

\* C3: at every point of a run the ids of the id log are the ids of the
\* records persisted in the record store.
C3_LogMatchesRecords == (pc \in Running) => LogIds = RecordIds

\* C4 as stated: when the pipeline is at the head of its loop, every file it
\* counted as processed has its id in the id log, its record in the record
\* store, an entry in the summary and a document in the index.
C4_AllFourCommitted ==
    (pc = "next") =>
        \A id \in counted :
            id \in LogIds /\ id \in RecordIds /\ id \in SummaryIds /\ id \in IndexIds

\* C4 amended: when the pipeline is at the head of its loop, every file it
\* counted as processed has its id in the id log, its record in the record
\* store and a document in the index (the summary entry is best effort).
C4_ThreeCommitted ==
    (pc = "next") =>
        \A id \in counted : id \in LogIds /\ id \in RecordIds /\ id \in IndexIds

C4_Witness ==
    /\ pc = "next"
    /\ i > 1
    /\ \E id \in counted : id \notin SummaryIds

\* C5: every file of the batch is counted in exactly one of the three
\* counters whatever step of it raised: processed counts the indexed
\* records, skipped the duplicates, errors the files a step of which raised;
\* a run that reaches its end has counted NumFiles files, and no per-file
\* error makes process_folder raise.
C5_ErrorsDoNotAbort ==
    /\ processed = Count(outcomes, "record")
    /\ skipped = Count(outcomes, "none")
    /\ errors = Len(outcomes) - Count(outcomes, "record") - Count(outcomes, "none")
    /\ processed + skipped + errors = Len(outcomes)
    /\ (pc \in InFile \cup {"next"}) => Len(outcomes) = i - 1
    /\ (pc \in {"report", "done"}) => processed + skipped + errors = NumFiles
    /\ (pc = "aborted") =>
          (abortCause \in {"idlog", "index_init"} \/ Len(outcomes) = NumFiles)

C5_Witness ==
    /\ pc = "done"
    /\ outcomes[1] \notin {"record", "none"}
    /\ outcomes[NumFiles] = "record"
    /\ errors >= 1
    /\ processed >= 1

C6_LogHeldInMemory == (pc \in Running) => LogIds \subseteq existing_ids

C6_OnlyGrows ==
    /\ LogIds \subseteq LogIds'
    /\ (pc \in Running /\ pc' \in Running) => existing_ids \subseteq existing_ids'

C7_DuplicateStep ==
    (/\ pc = "next"
     /\ i <= NumFiles
     /\ generate_email_id(inbox[i]) \in existing_ids
     /\ pc' # "idle")
    => (/\ durable' = durable
        /\ existing_ids' = existing_ids
        /\ pc' = "next"
        /\ i' = i + 1
        /\ processed' = processed
        /\ (outcomes'[i] # "read_error" =>
              /\ outcomes'[i] = "none"
              /\ skipped' = skipped + 1
              /\ errors' = errors))

\* C7: a file whose fingerprint is in the id set changes nothing durable and
\* nothing in the id set; unless its bytes cannot be read, it comes out as
\* the duplicate result and is counted in skipped, not in errors.
C7_DuplicateLeavesStoreUnchanged == [][C7_DuplicateStep]_vars

C7_Witness ==
    /\ Len(outcomes) >= 1
    /\ outcomes[Len(outcomes)] = "none"
    /\ skipped >= 1
    /\ generate_email_id(inbox[Len(outcomes)]) \in RecordIds
    /\ generate_email_id(inbox[Len(outcomes)]) \in IndexIds

\* C8: a run is never given up because the id log could not be read.
C8_UnreadableLogFallsBack == abortCause # "idlog"

\* C9 as stated: a read of the summary that finds the file absent or
\* unreadable returns the default and leaves the default in the file, and the
\* append that follows leaves a summary of count 1 with only the new entry.
C9_DefaultWritten ==
    [][/\ (pc \in {"summary", "report"} /\ pc' \in {"summary_write", "done"}
           /\ sumHow' \in {"absent", "unreadable"})
          => (sumTmp' = DefaultSummary /\ summary' = SummaryFile(DefaultSummary))
       /\ (pc = "summary_write" /\ pc' = "track" /\ sumHow \in {"absent", "unreadable"})
          => summary' = SummaryFile([total_emails |-> 1, emails |-> <<SummaryEntry(cur)>>])
      ]_vars

C9_ReadStep ==
    (pc \in {"summary", "report"} /\ pc' \in {"summary_write", "done"}) =>
        IF sumHow' = "read"
        THEN /\ summary.exists
             /\ summary' = summary
             /\ sumTmp' = [total_emails |-> summary.total_emails, emails |-> summary.emails]
        ELSE /\ sumHow' = (IF summary.exists THEN "unreadable" ELSE "absent")
             /\ sumTmp' = DefaultSummary
             /\ summary' \in {summary, SummaryFile(DefaultSummary)}

C9_AppendStep ==
    (pc = "summary_write" /\ pc' = "track" /\ sumHow \in {"absent", "unreadable"}) =>
        summary' \in {summary,
                      SummaryFile([total_emails |-> 1, emails |-> <<SummaryEntry(cur)>>])}

\* C9 amended: a read of the summary that finds the file absent or
\* unreadable returns the default, and the file then holds the default or is
\* as it was (the write of the default failed); a read that succeeds returns
\* the file's content and leaves the file alone; the append that follows a
\* fallback computes count 1 with only the new entry, and the file then holds
\* that or is as it was.
C9_DefaultReturned == [][C9_ReadStep /\ C9_AppendStep]_vars

C9_Witness ==
    /\ pc = "track"
    /\ sumHow = "unreadable"
    /\ summary = SummaryFile([total_emails |-> 1, emails |-> <<SummaryEntry(cur)>>])
    /\ RecordIds \ {cur.id} # {}

UnderRecordDir(path, id) ==
    /\ Len(path) = 3
    /\ SubSeq(path, 1, 2) = AttachmentDir(id)
    /\ path[3] \notin {"..", ".", "/"}

\* C10: every file written by save_attachment lies directly in
\* attachments/<id>/ of the store, and every attachment location of a
\* persisted record names such a file in the directory of the record's id.
C10_AttachmentsUnderRecordDir ==
    /\ \A path \in DOMAIN attachFiles : \E id \in Ids : UnderRecordDir(path, id)
    /\ \A id \in RecordIds :
         \A n \in 1..Len(records[id].attachments) :
            LET location == records[id].attachments[n].location IN
            /\ UnderRecordDir(location, id)
            /\ location \in DOMAIN attachFiles

C10_Witness ==
    \E id \in RecordIds :
        /\ Len(records[id].attachments) = 1
        /\ Len(records[id].attachments[1].name) = 3
        /\ records[id].attachments[1].name[1] = "/"
        /\ records[id].attachments[1].name[2] = ".."
        /\ records[id].attachments[1].location \in DOMAIN attachFiles

\* C11: for every attachment entry of a persisted record, the file at the
\* entry's location holds the bytes of that attachment of the message.
C11_AttachmentBytesPreserved ==
    \A id \in RecordIds :
        \A n \in 1..Len(records[id].attachments) :
            LET location == Resolve(<<>>, records[id].attachments[n].location)
                declared == AttachmentsOf(records[id].content)[n]
            IN /\ location \in DOMAIN attachFiles
               /\ attachFiles[location] = declared.content

C12_AttachStep ==
    (pc = "attach" /\ k <= Len(AttachmentsOf(inbox[i])) /\ pc' # "idle") =>
        /\ records' = records
        /\ summary' = summary
        /\ idLog' = idLog
        /\ index' = index
        /\ existing_ids' = existing_ids
        /\ \A path \in DOMAIN attachFiles' :
              \/ (path \in DOMAIN attachFiles /\ attachFiles'[path] = attachFiles[path])
              \/ UnderRecordDir(path, cur.id)
        /\ DOMAIN attachFiles \subseteq DOMAIN attachFiles'
        /\ (pc' = "next") =>
              /\ outcomes'[i] = "attachment_error"
              /\ attachFiles' = attachFiles
              /\ errors' = errors + 1
              /\ processed' = processed
              /\ skipped' = skipped
              /\ cur.id \notin existing_ids'

\* C12: while the attachments of a file are being saved nothing but files of
\* the directory of its own id is written; the step in which save_attachment
\* raises writes nothing at all, leaves records, summary, id log, id set and
\* index as they were, and counts the file in errors only.
C12_AttachmentFailureIsLocal == [][C12_AttachStep]_vars

C12_Witness ==
    /\ runs = 2
    /\ pc = "next"
    /\ Len(outcomes) = 1
    /\ outcomes[1] = "attachment_error"
    /\ errors = 1
    /\ \E path \in DOMAIN attachFiles : UnderRecordDir(path, generate_email_id(inbox[1]))
    /\ RecordIds = {generate_email_id(inbox[2])}
    /\ IndexIds = RecordIds
    /\ SummaryIds = RecordIds
    /\ generate_email_id(inbox[1]) \notin LogIds \cup RecordIds

DocsOf(ix, id) == {n \in 1..Len(ix) : ix[n].id = id}

\* C13: the index never holds two documents with the same id, and after an
\* index_email call that succeeded the one document of the call's id carries
\* the sender, recipients, subject, content and date of that call.
C13_IndexIsUpsert ==
    /\ \A id \in Ids : Cardinality(DocsOf(index, id)) <= 1
    /\ (result.op = "index_email" /\ result.kind = "ok") =>
          \E n \in 1..Len(index) :
             /\ DocsOf(index, result.args.id) = {n}
             /\ index[n].subject = result.args.metadata.subject
             /\ index[n].sender = result.args.metadata.sender
             /\ index[n].content = result.args.content
             /\ index[n].date = result.args.metadata.date
             /\ Len(index) = Len(result.before.ix)
                              + (IF DocsOf(result.before.ix, result.args.id) = {} THEN 1 ELSE 0)

C13_Witness ==
    /\ result.op = "index_email"
    /\ result.kind = "ok"
    /\ Len(index) = 2
    /\ \E n \in DocsOf(result.before.ix, result.args.id) :
          result.before.ix[n].subject # result.args.metadata.subject

\* C14: an index_email call whose record lacks one of id, metadata, content
\* raises ValueError (not SearchError) without a writer having been opened,
\* and the index is as it was before the call.
C14_ValidationBeforeWrite ==
    (result.op = "index_email" /\ REQUIRED_FIELDS_TO_INDEX \ result.args.present # {}) =>
        /\ result.kind = "ValueError"
        /\ ~result.accessed
        /\ index = result.before.ix

C14_Witness ==
    /\ result.op = "index_email"
    /\ result.kind = "ValueError"
    /\ result.args.present = {"id", "metadata"}
    /\ \E n \in DocsOf(index, result.args.id) :
          index[n].subject # result.args.metadata.subject

InvalidSelection(args) ==
    args.fields.given /\ args.fields.names \ SEARCHABLE_FIELDS # {}

NonPositiveCap(args) == args.max_results.given /\ args.max_results.value <= 0

\* C15: a search whose field selection holds a name outside the searchable
\* fields, or whose caller passed a cap of zero or less, raises the
\* validation error without the index having been accessed.
C15_InvalidArgumentsRejected ==
    (result.op = "search" /\ (InvalidSelection(result.args) \/ NonPositiveCap(result.args))) =>
        /\ result.kind = "ValueError"
        /\ ~result.accessed

\* The part of C15 the code keeps: an invalid field name, or a negative cap,
\* is rejected before the index is accessed.
C15_NegativeCapOrInvalidFieldRejected ==
    (/\ result.op = "search"
     /\ \/ InvalidSelection(result.args)
        \/ (result.args.max_results.given /\ result.args.max_results.value < 0)) =>
        /\ result.kind = "ValueError"
        /\ ~result.accessed

\* A search call with valid arguments on which the index engine did not fail.
ValidSearch ==
    /\ result.op = "search"
    /\ result.args.ioOk
    /\ ~InvalidSelection(result.args)
    /\ ResultLimit(result.args.max_results) >= 1

InRange(date, range) ==
    /\ (range.start = NoDate \/ range.start <= date)
    /\ (range.end = NoDate \/ date <= range.end)

HasBound(range) == range.start # NoDate \/ range.end # NoDate

\* The stored fields of the documents of ix that satisfy P
Stored(ix, P(_)) == {StoredFields(ix[n]) : n \in {m \in 1..Len(ix) : P(ix[m])}}

\* docs is a cut of `expected` to the cap in force
CutTo(docs, expected, cap) ==
    /\ docs \subseteq expected
    /\ Cardinality(docs) = IF Cardinality(expected) <= cap THEN Cardinality(expected) ELSE cap

SelectedFields(args) ==
    IF args.fields.given /\ args.fields.names # {} THEN args.fields.names
    ELSE {"subject", "content", "sender", "recipient"}

\* Every word of the query occurs in one of the selected fields of d.
TextMatches(d, args) ==
    \A t \in Terms :
        (\E n \in 1..Len(args.query) : args.query[n] = t) =>
            \E f \in SelectedFields(args) : t \in d[f]

\* C17: a search given a date range succeeds whichever of its bounds are
\* given, and returns, up to the cap in force, exactly the documents that
\* match the text query and whose date satisfies every bound given.
C17_AnyRangeSucceeds ==
    (ValidSearch /\ result.args.date_range.given) =>
        /\ result.kind = "ok"
        /\ CutTo(result.docs,
                 Stored(index, LAMBDA d : /\ TextMatches(d, result.args)
                                          /\ InRange(d.date, result.args.date_range)),
                 ResultLimit(result.args.max_results))

\* The part of C17 the code keeps: the same for a range of which at least one
\* bound is given.
C17_BoundedRangeSucceeds ==
    (ValidSearch /\ result.args.date_range.given /\ HasBound(result.args.date_range)) =>
        /\ result.kind = "ok"
        /\ CutTo(result.docs,
                 Stored(index, LAMBDA d : /\ TextMatches(d, result.args)
                                          /\ InRange(d.date, result.args.date_range)),
                 ResultLimit(result.args.max_results))

C19_InitStep ==
    (result.op = "init") =>
        /\ (result.kind = "ok") => indexDir = "index"
        /\ (result.before.dir = "absent" /\ result.kind = "ok") => index = <<>>
        /\ (result.before.dir # "absent") =>
              /\ indexDir = result.before.dir
              /\ index = result.before.ix
        /\ (result.before.dir = "index") => indexDir = "index"

C19_InitTwice ==
    \A m1, o1, m2, o2 \in BOOLEAN :
        LET once  == EnsureIndex(indexDir, index, m1, o1)
            twice == EnsureIndex(once.dir, once.ix, m2, o2)
        IN (~once.raised /\ ~twice.raised) =>
              /\ twice.dir = once.dir
              /\ twice.ix = once.ix
              /\ once.dir = "index"

\* C19: constructing a SearchEngine on an absent directory creates it with an
\* empty index and is ready; on a directory that exists it opens what is
\* there and changes neither the directory nor any document, whether the
\* open succeeds or raises; a second successful initialization leaves the
\* state of the first.
C19_InitIdempotent == C19_InitStep /\ C19_InitTwice

C19_Witness ==
    /\ result.op = "init"
    /\ result.kind = "ok"
    /\ result.before.dir = "index"
    /\ Len(result.before.ix) = 2
    /\ indexDir = "index"
    /\ Len(index) = 2

C21_IdIsFunctionOfBytes ==
    /\ (pc \in InFile) => cur.id = generate_email_id(inbox[i])
    /\ \A id \in RecordIds :
          /\ records[id].id = id
          /\ generate_email_id(records[id].content) = id
    /\ \A j1, j2 \in 1..Len(outcomes) :
          (j1 < j2 /\ inbox[j1] = inbox[j2] /\ outcomes[j1] = "record") =>
              outcomes[j2] \in {"none", "read_error"}
    /\ \A id \in Ids : accepted[id] <= 1

C21_Witness ==
    /\ runs = 2
    /\ Len(outcomes) >= 1
    /\ outcomes[1] = "none"
    /\ inbox[1] = inbox[2]
    /\ generate_email_id(inbox[1]) \in RecordIds
    /\ records[generate_email_id(inbox[1])].original_file = 2

C24_AppendOne ==
    (pc = "summary_write" /\ pc' = "track" /\ sumHow = "read") =>
        /\ summary'.exists
        /\ summary'.total_emails = summary.total_emails + 1
        /\ summary'.emails =
               Append(summary.emails,
                      [id |-> cur.id, subject |-> SubjectOf(cur.content),
                       date |-> DateOf(cur.content)])

C24_CountIsLength == summary.exists => summary.total_emails = Len(summary.emails)

\* C24 as stated: every append to a summary that was read increases the
\* count by one and adds the record's entry at the end.
C24_AppendAlwaysLands == [][C24_AppendOne]_vars

C24_AppendOrUntouched ==
    (pc = "summary_write" /\ pc' = "track" /\ sumHow = "read") =>
        \/ C24_AppendOne
        \/ summary' = summary

\* C24 amended: an append to a summary that was read either rewrites the
\* file with the count one higher and the entry {id, subject, date} of the
\* record added at the end, every earlier entry as it was and in its place,
\* or (the rewrite failed, which is logged and swallowed) leaves the file as
\* it was; in every state the count of the summary file is the number of its
\* entries.
C24_AppendOneOrNothing == []C24_CountIsLength /\ [][C24_AppendOrUntouched]_vars

C24_Witness ==
    /\ pc = "track"
    /\ sumHow = "read"
    /\ summary.exists
    /\ summary.total_emails = 2
    /\ Len(summary.emails) = 2
    /\ summary.emails[2] = [id |-> cur.id, subject |-> SubjectOf(cur.content),
                            date |-> DateOf(cur.content)]
    /\ summary.emails[1].id # cur.id

\* C27: in every state of a run over a store that began consistent, crash
\* points included, every id of the in-memory set and of the id log, and
\* every document of the index, has its record in the record store.
C27_RegisteredImpliesRecorded ==
    /\ (pc \in Running \cup {"aborted"}) => existing_ids \subseteq RecordIds
    /\ LogIds \subseteq RecordIds
    /\ IndexIds \subseteq RecordIds

C27_Witness ==
    /\ pc = "idle"
    /\ runs >= 1
    /\ LogIds # {}
    /\ IndexIds = {}
    /\ LogIds \subseteq RecordIds

FailedOutcomes == {"read_error", "attachment_error", "save_error", "track_error",
                   "index_error"}

RecordedInThisRun(id) ==
    \E j \in 1..Len(outcomes) :
        generate_email_id(inbox[j]) = id /\ outcomes[j] = "record"

\* C28: in the first run over an empty store, once a file is counted as
\* failed and no file of the run with the same fingerprint was accepted, its
\* id is not in the in-memory set, and after the end-of-batch rewrite it is
\* not in the id log.
C28_FailedFileUnregistered ==
    (runs = 1 /\ pc \in {"next", "report", "done"}) =>
        \A j \in 1..Len(outcomes) :
            LET id == generate_email_id(inbox[j]) IN
            (outcomes[j] \in FailedOutcomes /\ ~RecordedInThisRun(id)) =>
                /\ id \notin existing_ids
                /\ (pc \in {"report", "done"}) => id \notin LogIds

\* C29: when a run has completed with no failed file, every record of the
\* record store has its document in the index.
C29_CleanRunLeavesAllIndexed ==
    (pc = "done" /\ errors = 0) => RecordIds \subseteq IndexIds

\* C30: a file comes out as a duplicate only if the record store of the data
\* directory in use holds a record with its fingerprint.
C30_DuplicateOnlyIfRecordedHere ==
    \A j \in 1..Len(outcomes) :
        outcomes[j] = "none" => generate_email_id(inbox[j]) \in RecordIds

\* C25: a construction over an existing directory that holds no index, or an
\* index whose stored schema is not the schema of the engine, ends in
\* SearchError; a construction that succeeds leaves an engine whose index
\* has the schema of the engine.
C25_SchemaMismatchIsFatal ==
    (result # NoCall /\ result.op = "init") =>
        /\ (result.before.dir # "absent"
            /\ StoredSchema(result.before.dir) # CoreSchema)
               => result.kind = "SearchError"
        /\ result.kind = "ok" => StoredSchema(indexDir) = CoreSchema

NoRecipientValue(m) ==
    \A h \in {m.to, m.cc, m.bcc} : ~h.present \/ h.value = <<>>

C22_Subject ==
    parsed.called =>
        /\ parsed.subject # ""
        /\ (~msg.subject.present \/ msg.subject.value = "")
               => parsed.subject = DEFAULT_SUBJECT

C22_Sender ==
    parsed.called =>
        /\ parsed.sender # ""
        /\ ~msg.from.present => parsed.sender = DEFAULT_SENDER

C22_Recipients ==
    parsed.called =>
        /\ parsed.recipient # <<>>
        /\ NoRecipientValue(msg) => parsed.recipient = DEFAULT_RECIPIENTS

\* C22: after a parse, subject, sender and recipients are not empty; a
\* missing or empty Subject gives "[No Subject]", a missing From gives
\* "[No Sender]", and no To, Cc and Bcc value gives ["[No Recipients]"].
C22_FieldsNeverEmpty == C22_Subject /\ C22_Sender /\ C22_Recipients

\* The parts of m that body extraction classifies under subtype.
FoundParts(m, subtype) ==
    {n \in 1..Len(m.parts) :
        IF IsMultipart(m)
        THEN IsBodyPart(m.parts[n]) /\ m.parts[n].subtype = subtype
        ELSE n = 1 /\ m.parts[1].subtype = subtype}

NonEmptyParts(m, subtype) ==
    {n \in FoundParts(m, subtype) : m.parts[n].payload # ""}

C23_HtmlOnlyGetsSentinel ==
    (parsed.called /\ FoundParts(msg, "plain") = {} /\ NonEmptyParts(msg, "html") # {})
        => parsed.body.plain = HTML_ONLY

C23_PlainKept ==
    (parsed.called /\ NonEmptyParts(msg, "plain") # {})
        => \E n \in NonEmptyParts(msg, "plain") : parsed.body.plain = msg.parts[n].payload

\* C23: after a parse, when no plain-text part was found and an HTML part
\* with text was, plain is the sentinel; when a plain-text part with text was
\* found, plain is the text of such a part and not the sentinel.
C23_BodyPostProcessing == C23_HtmlOnlyGetsSentinel /\ C23_PlainKept

\* The parts the attachment rule names: primary type not multipart, with a
\* filename.
NamedParts(m) ==
    {n \in 1..Len(m.parts) :
        m.parts[n].maintype # "multipart" /\ m.parts[n].filename # NoFilename}

CapturedParts == {parsed.attachments[n].part : n \in 1..Len(parsed.attachments)}

C26_CapturedOnlyIfNamed == parsed.called => CapturedParts \subseteq NamedParts(msg)

C26_NamedIsCaptured ==
    parsed.called =>
        /\ NamedParts(msg) \subseteq CapturedParts
        /\ Len(parsed.attachments) = Cardinality(NamedParts(msg))

C26_NamedTextIsNotBody ==
    (parsed.called /\ IsMultipart(msg)) =>
        \A t \in {"plain", "html"} :
            (/\ parsed.body[t] # ""
             /\ ~(t = "plain" /\ parsed.body.plain = HTML_ONLY))
            => \E n \in 1..Len(msg.parts) :
                   /\ msg.parts[n].maintype = "text"
                   /\ msg.parts[n].subtype = t
                   /\ msg.parts[n].filename = NoFilename
                   /\ msg.parts[n].payload = parsed.body[t]

\* C26: after a parse the attachments are exactly the traversed parts whose
\* primary type is not multipart and that carry a filename, in traversal
\* order, and in a multi-part message the body texts come from text parts
\* without a filename.
C26_AttachmentIffNamed ==
    C26_CapturedOnlyIfNamed /\ C26_NamedIsCaptured /\ C26_NamedTextIsNotBody

====
